---- MODULE Spec2Model ----
(***************************************************************************)
(* Model of src/src/chess_backend.py: the ChessGame session (pointer       *)
(* handling, agent move negotiation, PGN record and auto-save, main loop). *)
(*                                                                         *)
(* The rules engine (python-chess: chess.Board, chess.Move) is a library   *)
(* outside the repository.  It is modelled as a reduced chess on a         *)
(* Files x Ranks board: kings, knights, bishops, rooks, queens and pawns   *)
(* (single step, diagonal capture, promotion on the last rank), legality   *)
(* by king safety, game over by checkmate, stalemate or insufficient       *)
(* material.  Castling, en passant, the double pawn step, the move         *)
(* counters and the repetition and 75-move draws are left out.  Board.push *)
(* applies a move without validating it, as the library does, and raises   *)
(* when the from-square is empty.  A session is followed from a small      *)
(* endgame position with White (the player) to move.                       *)
(***************************************************************************)
EXTENDS Integers, Sequences, FiniteSets, TLC

VARIABLES
    board,            \* self.board: pieces, turn, move_stack
    nodes, node,      \* self.game (the PGN tree below the root) and self.node
    selected_square, legal_moves, dragging, drag_piece, drag_pos,
    running,          \* the loop flag of _main_loop
    pc,               \* where _main_loop is: "events", "agent", "gameover", "done"
    exit,             \* how _main_loop was left, None while it runs
    ai_move,          \* what the last get_ai_move call gave
    saves,            \* the save_game calls made, in order
    disk,             \* the directories and files save_game and __init__ touch
    requests,         \* the suggestion requests sent
    by                \* for each pushed move, the caller of make_move

vars == <<board, nodes, node, selected_square, legal_moves, dragging,
          drag_piece, drag_pos, running, pc, exit, ai_move, saves, disk, requests, by>>

\* ------------------------------------------------------------------ bounds
Files == 3
Ranks == 4
MaxPly == 3

\* --------------------------------------------------------------- constants
SQUARE_SIZE == 60
WIDTH == Files * SQUARE_SIZE
HEIGHT == Ranks * SQUARE_SIZE
LEFT_BUTTON == 1
OTHER_BUTTON == LEFT_BUTTON + 2
HTTP_OK == 200
HTTP_ERROR == HTTP_OK + 300

None == "None"
NoSquare == 0 - 1
WHITE == TRUE
BLACK == FALSE

\* ------------------------------------------------------------ rules engine
SQUARES == 0 .. (Files * Ranks - 1)
square(file_idx, rank_idx) == rank_idx * Files + file_idx
square_file(sq) == sq % Files
square_rank(sq) == sq \div Files
OnBoard(f, r) == f \in 0 .. (Files - 1) /\ r \in 0 .. (Ranks - 1)

WhiteSymbols == {"P", "N", "B", "R", "Q", "K"}
BlackSymbols == {"p", "n", "b", "r", "q", "k"}
PromotionPieces == {"q", "r", "b", "n"}
NoPromotion == ""

\* piece.color and piece.piece_type of a piece symbol
Color(sym) == sym \in WhiteSymbols
PieceType(sym) ==
    CASE sym \in {"P", "p"} -> "p"
      [] sym \in {"N", "n"} -> "n"
      [] sym \in {"B", "b"} -> "b"
      [] sym \in {"R", "r"} -> "r"
      [] sym \in {"Q", "q"} -> "q"
      [] sym \in {"K", "k"} -> "k"
Symbol(type, color) ==
    IF color = WHITE
    THEN CASE type = "p" -> "P" [] type = "n" -> "N" [] type = "b" -> "B"
           [] type = "r" -> "R" [] type = "q" -> "Q" [] type = "k" -> "K"
    ELSE type

\* chess.Move(from_square, to_square, promotion=None)
Move(from, to) == [from_square |-> from, to_square |-> to, promotion |-> NoPromotion]
PromotionMove(from, to, p) == [from_square |-> from, to_square |-> to, promotion |-> p]
AllMoves == [from_square : SQUARES, to_square : SQUARES,
             promotion : PromotionPieces \cup {NoPromotion}]

piece_at(b, sq) == b.pieces[sq]
Occupied(b, sq) == b.pieces[sq] # None
OccupiedBy(b, sq, color) == Occupied(b, sq) /\ Color(b.pieces[sq]) = color

KnightSteps == {<<1, 2>>, <<2, 1>>, <<2, -1>>, <<1, -2>>,
                <<-1, -2>>, <<-2, -1>>, <<-2, 1>>, <<-1, 2>>}
DiagonalSteps == {<<1, 1>>, <<1, -1>>, <<-1, 1>>, <<-1, -1>>}
StraightSteps == {<<1, 0>>, <<-1, 0>>, <<0, 1>>, <<0, -1>>}
KingSteps == DiagonalSteps \cup StraightSteps
MaxSlide == IF Files > Ranks THEN Files ELSE Ranks

Step(sq, d, k) == square(square_file(sq) + k * d[1], square_rank(sq) + k * d[2])
StepOnBoard(sq, d, k) == OnBoard(square_file(sq) + k * d[1], square_rank(sq) + k * d[2])

\* squares reached from sq by single steps
Leaps(sq, steps) == {Step(sq, d, 1) : d \in {e \in steps : StepOnBoard(sq, e, 1)}}
\* squares reached from sq by sliding along the steps until blocked
Slides(b, sq, steps) ==
    UNION {{Step(sq, d, k) : k \in {j \in 1 .. MaxSlide :
                /\ StepOnBoard(sq, d, j)
                /\ \A i \in 1 .. (j - 1) : ~Occupied(b, Step(sq, d, i))}}
           : d \in steps}
Forward(color) == IF color = WHITE THEN 1 ELSE 0 - 1
LastRank(color) == IF color = WHITE THEN Ranks - 1 ELSE 0
PawnCaptures(sq, color) == Leaps(sq, {<<1, Forward(color)>>, <<-1, Forward(color)>>})

\* squares attacked by the piece standing on sq
Attacks(b, sq) ==
    LET sym == b.pieces[sq] t == PieceType(sym) IN
    CASE t = "p" -> PawnCaptures(sq, Color(sym))
      [] t = "n" -> Leaps(sq, KnightSteps)
      [] t = "k" -> Leaps(sq, KingSteps)
      [] t = "b" -> Slides(b, sq, DiagonalSteps)
      [] t = "r" -> Slides(b, sq, StraightSteps)
      [] t = "q" -> Slides(b, sq, KingSteps)

is_attacked_by(b, color, sq) ==
    \E s \in SQUARES : OccupiedBy(b, s, color) /\ sq \in Attacks(b, s)

Kings(b, color) == {s \in SQUARES : b.pieces[s] = Symbol("k", color)}
is_check_of(b, color) == \E k \in Kings(b, color) : is_attacked_by(b, ~color, k)

\* the piece placement after a move; no legality check, as Board.push
Place(b, move) ==
    LET sym == b.pieces[move.from_square]
        put == IF move.promotion # NoPromotion
               THEN Symbol(move.promotion, Color(sym)) ELSE sym
    IN [b.pieces EXCEPT ![move.from_square] = None, ![move.to_square] = put]

\* Board.push: raises (assertion) when the from-square is empty
PushRaises(b, move) == ~Occupied(b, move.from_square)
push(b, move) == [pieces |-> Place(b, move), turn |-> ~b.turn,
                  move_stack |-> Append(b.move_stack, move)]

PawnMoves(b, sq, color) ==
    LET ahead == Step(sq, <<0, Forward(color)>>, 1)
        quiet == IF StepOnBoard(sq, <<0, Forward(color)>>, 1) /\ ~Occupied(b, ahead)
                 THEN {ahead} ELSE {}
        takes == {t \in PawnCaptures(sq, color) : OccupiedBy(b, t, ~color)}
        plain == {t \in quiet \cup takes : square_rank(t) # LastRank(color)}
        last  == {t \in quiet \cup takes : square_rank(t) = LastRank(color)}
    IN {Move(sq, t) : t \in plain}
       \cup {PromotionMove(sq, t, p) : t \in last, p \in PromotionPieces}

pseudo_legal_moves(b) ==
    UNION {IF PieceType(b.pieces[s]) = "p"
           THEN PawnMoves(b, s, b.turn)
           ELSE {Move(s, t) : t \in {u \in Attacks(b, s) : ~OccupiedBy(b, u, b.turn)}}
           : s \in {q \in SQUARES : OccupiedBy(b, q, b.turn)}}

\* Board.legal_moves
LegalMoves(b) ==
    {m \in pseudo_legal_moves(b) :
        ~is_check_of([pieces |-> Place(b, m), turn |-> ~b.turn], b.turn)}

Count(b, syms) == Cardinality({s \in SQUARES : b.pieces[s] \in syms})
IsDark(sq) == (square_file(sq) + square_rank(sq)) % 2 = 0
has_insufficient_material(b, color) ==
    LET own(t) == Count(b, {Symbol(t, color)})
        all(t) == Count(b, {Symbol(t, WHITE), Symbol(t, BLACK)})
        mine == Cardinality({s \in SQUARES : OccupiedBy(b, s, color)})
        theirs == Cardinality({s \in SQUARES : OccupiedBy(b, s, ~color)})
        bishops == {s \in SQUARES : Occupied(b, s) /\ PieceType(b.pieces[s]) = "b"}
    IN IF own("p") + own("r") + own("q") > 0 THEN FALSE
       ELSE IF own("n") > 0
            THEN mine <= 2 /\ theirs - Count(b, {Symbol("k", ~color)})
                                     - Count(b, {Symbol("q", ~color)}) = 0
       ELSE IF own("b") > 0
            THEN /\ (\A s \in bishops : IsDark(s)) \/ (\A s \in bishops : ~IsDark(s))
                 /\ all("p") = 0 /\ all("n") = 0
       ELSE TRUE
is_insufficient_material(b) ==
    has_insufficient_material(b, WHITE) /\ has_insufficient_material(b, BLACK)
is_checkmate(b) == is_check_of(b, b.turn) /\ LegalMoves(b) = {}
is_stalemate(b) == ~is_check_of(b, b.turn) /\ LegalMoves(b) = {}
is_game_over(b) == is_checkmate(b) \/ is_stalemate(b) \/ is_insufficient_material(b)


\* ------------------------------------------------- move and text encoding
FILE_NAMES == <<"a", "b", "c", "d", "e", "f", "g", "h">>
RANK_NAMES == <<"1", "2", "3", "4", "5", "6", "7", "8">>
IndexOf(names, c) == CHOOSE i \in 1 .. Len(names) : names[i] = c

\* texts are sequences of one-character strings
square_name(sq) == <<FILE_NAMES[square_file(sq) + 1], RANK_NAMES[square_rank(sq) + 1]>>
\* Move.uci()
uci(move) ==
    square_name(move.from_square) \o square_name(move.to_square)
    \o (IF move.promotion = NoPromotion THEN <<>> ELSE <<move.promotion>>)
parse_square(f, r) == square(IndexOf(FILE_NAMES, f) - 1, IndexOf(RANK_NAMES, r) - 1)
\* Move.from_uci(), applied to tokens the legal list contains
from_uci(s) ==
    IF Len(s) = 4
    THEN Move(parse_square(s[1], s[2]), parse_square(s[3], s[4]))
    ELSE PromotionMove(parse_square(s[1], s[2]), parse_square(s[3], s[4]), s[5])

UpperOf == [c \in {"a", "b", "c", "d", "e", "f", "g", "h", "q", "r", "n"} |->
    CASE c = "a" -> "A" [] c = "b" -> "B" [] c = "c" -> "C" [] c = "d" -> "D"
      [] c = "e" -> "E" [] c = "f" -> "F" [] c = "g" -> "G" [] c = "h" -> "H"
      [] c = "q" -> "Q" [] c = "r" -> "R" [] c = "n" -> "N"]
upper(s) == [i \in 1 .. Len(s) |-> IF s[i] \in DOMAIN UpperOf THEN UpperOf[s[i]] ELSE s[i]]
lower(s) ==
    [i \in 1 .. Len(s) |->
        IF \E c \in DOMAIN UpperOf : UpperOf[c] = s[i]
        THEN CHOOSE c \in DOMAIN UpperOf : UpperOf[c] = s[i]
        ELSE s[i]]
IsSpace(c) == c \in {" ", "\n", "\t"}
RECURSIVE lstrip(_)
lstrip(s) == IF s = <<>> \/ ~IsSpace(Head(s)) THEN s ELSE lstrip(Tail(s))
RECURSIVE rstrip(_)
rstrip(s) ==
    IF s = <<>> \/ ~IsSpace(s[Len(s)]) THEN s ELSE rstrip(SubSeq(s, 1, Len(s) - 1))
strip(s) == rstrip(lstrip(s))
RECURSIVE FirstWord(_)
FirstWord(s) ==
    IF s = <<>> \/ IsSpace(Head(s)) THEN <<>> ELSE <<Head(s)>> \o FirstWord(Tail(s))
\* str.split(): the whitespace-delimited words, none for a blank text
RECURSIVE split(_)
split(s) ==
    LET t == lstrip(s) w == FirstWord(t) IN
    IF t = <<>> THEN <<>> ELSE <<w>> \o split(SubSeq(t, Len(w) + 1, Len(t)))

\* Board.fen() and chess.Board(fen): placement and side to move
fen(b) == [pieces |-> b.pieces, turn |-> b.turn]
BoardOf(f) == [pieces |-> f.pieces, turn |-> f.turn, move_stack |-> <<>>]

\* ------------------------------------------------------------- PGN record
\* self.game is the root (node 0); nodes[i] is the i-th node added
Variations(ns, n) == {i \in 1 .. Len(ns) : ns[i].parent = n}
FirstVariation(ns, n) == CHOOSE i \in Variations(ns, n) : \A j \in Variations(ns, n) : i <= j
\* node.add_variation(move): the new node is the last one
add_variation(ns, n, move) == Append(ns, [parent |-> n, move |-> move])
\* the moves print(self.game) writes as the game: the main line from the root
RECURSIVE MainlineFrom(_, _)
MainlineFrom(ns, n) ==
    IF Variations(ns, n) = {} THEN <<>>
    ELSE <<ns[FirstVariation(ns, n)].move>> \o MainlineFrom(ns, FirstVariation(ns, n))
MatchRecord(ns) == MainlineFrom(ns, 0)

\* ---------------------------------------------------------- pointer input
Pixels(size, count) == {0 - 1, size * count} \cup {i * size + size \div 2 : i \in 0 .. (count - 1)}
ClickPositions == Pixels(SQUARE_SIZE, Files) \X Pixels(SQUARE_SIZE, Ranks)
MousePositions == {<<SQUARE_SIZE \div 2, SQUARE_SIZE \div 2>>, <<0 - 1, 0 - 1>>}
Buttons == {LEFT_BUTTON, OTHER_BUTTON}

pos_to_square(pos) ==
    LET file_idx == pos[1] \div SQUARE_SIZE
        rank_idx == (Ranks - 1) - (pos[2] \div SQUARE_SIZE)
    IN IF 0 <= file_idx /\ file_idx <= Files - 1 /\ 0 <= rank_idx /\ rank_idx <= Ranks - 1
       THEN square(file_idx, rank_idx)
       ELSE NoSquare

\* ------------------------------------------------------------- negotiator
\* what the suggestion service can answer to one request
Failures == {"ConnectionError", "Timeout"}
Decorated(u) ==
    {upper(u), <<" ">> \o u \o <<"\n">>, u \o <<" ", "!">>, u \o <<".">>,
     SubSeq(u, 3, 4) \o SubSeq(u, 1, 2)}
Texts(legal) ==
    legal \cup UNION {Decorated(u) : u \in legal}
          \cup {<<>>, <<" ", "\n">>, <<"o", "k">>}
Replies(legal) ==
    {[kind |-> k, status_code |-> 0, json |-> FALSE, text |-> <<>>] : k \in Failures}
    \cup {[kind |-> "response", status_code |-> HTTP_ERROR, json |-> FALSE, text |-> <<>>]}
    \cup {[kind |-> "response", status_code |-> HTTP_OK, json |-> FALSE, text |-> <<>>]}
    \cup {[kind |-> "response", status_code |-> HTTP_OK, json |-> TRUE, text |-> t]
          : t \in Texts(legal)}

Raised(name) == [raised |-> name, move |-> <<>>]
Returned(m) == [raised |-> None, move |-> m]
\* a returned None is the empty move text
ReturnedNone == Returned(<<>>)

legal_uci(f) == {uci(m) : m \in LegalMoves(BoardOf(f))}
\* does get_ai_move reach requests.post: not when the position has no legal move
Posts(f) == legal_uci(f) # {}

\* get_ai_move with the lower() call left out
get_ai_move_case_sensitive(f, reply) ==
    LET legal == legal_uci(f) IN
    IF legal = {} THEN ReturnedNone
    ELSE IF reply.kind \in Failures THEN ReturnedNone
    ELSE IF reply.status_code # HTTP_OK THEN ReturnedNone
    ELSE IF ~reply.json THEN ReturnedNone
    ELSE LET words == split(strip(reply.text)) IN
         IF words = <<>> THEN Raised("IndexError")
         ELSE IF words[1] \notin legal THEN ReturnedNone
         ELSE Returned(words[1])

get_ai_move(f, reply) ==
    LET legal == legal_uci(f) IN
    IF legal = {} THEN ReturnedNone
    ELSE IF reply.kind \in Failures THEN ReturnedNone
    ELSE IF reply.status_code # HTTP_OK THEN ReturnedNone
    ELSE IF ~reply.json THEN ReturnedNone
    ELSE LET words == split(lower(strip(reply.text))) IN
         IF words = <<>> THEN Raised("IndexError")
         ELSE IF words[1] \notin legal THEN ReturnedNone
         ELSE Returned(words[1])

\* ------------------------------------------------------- session: ChessGame
NoPos == <<>>
Setup(placed) ==
    [s \in SQUARES |->
        IF \E q \in placed : square(q[1], q[2]) = s
        THEN (CHOOSE q \in placed : square(q[1], q[2]) = s)[3]
        ELSE None]
\* chess.Board(): the positions a session is followed from, white to move
PawnRace == Setup({<<0, 1, "K">>, <<2, 2, "P">>, <<0, 3, "k">>, <<1, 1, "p">>})
StartPositions ==
    {PawnRace, Setup({<<0, 1, "K">>, <<2, 3, "k">>, <<1, 1, "p">>})}

Constructed ==
    /\ board \in {[pieces |-> p, turn |-> WHITE, move_stack |-> <<>>] : p \in StartPositions}
    /\ nodes = <<>>
    /\ node = 0
    /\ selected_square = NoSquare
    /\ dragging = FALSE
    /\ drag_piece = None
    /\ drag_pos = NoPos
    /\ legal_moves = {}
    /\ running = TRUE
    /\ pc = "events"
    /\ exit = None
    /\ ai_move = ReturnedNone
    /\ saves = <<>>
    /\ requests = 0
    /\ by = <<>>

\* The disk. What is followed of it is chosen at the start of a run:
\*   watch = "none"   nothing; every field keeps its first value
\*   watch = "io"     whether open/print of save_game raised IOError
\*                    (ok: the last call wrote; recovered: a call wrote after
\*                    a call that raised)
\*   watch = "files"  the file names and the folders (name: the second, counted
\*                    from the first save, in the name of the last file
\*                    written; cwd: the working directory; old: the
\*                    directories whose games folder holds *.pgn of an earlier
\*                    session)
NoName == 0 - 1
SCRIPT_DIR == "src"
Dirs == {SCRIPT_DIR, "elsewhere"}
NotWatched ==
    [watch |-> "none", ok |-> TRUE, recovered |-> FALSE, name |-> NoName,
     cwd |-> SCRIPT_DIR, old |-> {}]

\* _clear_games_folder: removes the *.pgn of <directory of the script>/games
clear_games_folder(old) == old \ {SCRIPT_DIR}

\* datetime.now().strftime('%Y%m%d_%H%M%S') in save_game: the clock's second
\* is the one of the call before or a later one
strftime(d) == IF d.name = NoName THEN {d.name + 1} ELSE {d.name, d.name + 1}

\* the try block of save_game: makedirs, open(filename, "w"), print; IOError
\* is caught and logged, nothing else of the program changes
write_file(d) ==
    CASE d.watch = "io" ->
            {[d EXCEPT !.ok = ok, !.recovered = @ \/ (ok /\ ~d.ok)] : ok \in BOOLEAN}
      [] d.watch = "files" -> {[d EXCEPT !.name = n] : n \in strftime(d)}
      [] OTHER -> {d}

Init == Constructed /\ disk = NotWatched
InitIO ==
    /\ Constructed
    /\ board.pieces = PawnRace
    /\ disk = [NotWatched EXCEPT !.watch = "io"]
InitFiles ==
    /\ Constructed
    /\ \E cwd \in Dirs :
          disk = [NotWatched EXCEPT !.watch = "files", !.cwd = cwd,
                                    !.old = clear_games_folder(Dirs)]

\* save_game, called from site: the written text is the game as it then is
save_game(ns, site) == Append(saves, [site |-> site, game |-> MatchRecord(ns)])

\* make_move that adds the variation but keeps self.node where it was
make_move_keeps_node(move, who) ==
    /\ Len(board.move_stack) < MaxPly
    /\ board' = push(board, move)
    /\ nodes' = add_variation(nodes, node, move)
    /\ node' = node
    /\ saves' = save_game(add_variation(nodes, node, move), "make_move")
    /\ disk' \in write_file(disk)
    /\ by' = Append(by, who)

\* make_move that saves before the move is added to the game
make_move_saves_first(move, who) ==
    /\ Len(board.move_stack) < MaxPly
    /\ board' = push(board, move)
    /\ nodes' = add_variation(nodes, node, move)
    /\ node' = Len(nodes) + 1
    /\ saves' = save_game(nodes, "make_move")
    /\ disk' \in write_file(disk)
    /\ by' = Append(by, who)

\* make_move that leaves the move out of the game when its save raised
make_move_forgets_unsaved(move, who) ==
    /\ Len(board.move_stack) < MaxPly
    /\ board' = push(board, move)
    /\ disk' \in write_file(disk)
    /\ nodes' = IF disk'.ok THEN add_variation(nodes, node, move) ELSE nodes
    /\ node' = IF disk'.ok THEN Len(nodes) + 1 ELSE node
    /\ saves' = save_game(nodes', "make_move")
    /\ by' = Append(by, who)

\* make_move: push, add_variation, auto-save
make_move(move, who) ==
    /\ Len(board.move_stack) < MaxPly
    /\ board' = push(board, move)
    /\ nodes' = add_variation(nodes, node, move)
    /\ node' = Len(nodes) + 1
    /\ saves' = save_game(add_variation(nodes, node, move), "make_move")
    /\ disk' \in write_file(disk)
    /\ by' = Append(by, who)

\* an exception nothing catches leaves _main_loop and run
Crash(name) ==
    /\ pc' = "done"
    /\ exit' = name
    /\ UNCHANGED <<board, nodes, node, selected_square, legal_moves, dragging,
                   drag_piece, drag_pos, running, ai_move, saves, disk, by>>

\* a first click that picks up any piece, whose turn it is or not
CanSelectAnyPiece(b, sq) == Occupied(b, sq)

\* handle_click, first click: may the piece on sq be picked up
CanSelect(b, sq) == Occupied(b, sq) /\ Color(piece_at(b, sq)) = (b.turn = WHITE)
\* handle_click, first click: the moves stored with the selection
SelectionMoves(b, sq) == {m \in LegalMoves(b) : m.from_square = sq}
\* handle_click, second click: the move that is looked up
ClickedMove(from, to) == Move(from, to)

ClearSelection ==
    /\ selected_square' = NoSquare
    /\ legal_moves' = {}
    /\ dragging' = FALSE
    /\ drag_piece' = None

handle_click(pos) ==
    LET sq == pos_to_square(pos) IN
    IF sq = NoSquare THEN UNCHANGED vars
    ELSE IF selected_square = NoSquare
    THEN IF CanSelect(board, sq)
         THEN /\ selected_square' = sq
              /\ legal_moves' = SelectionMoves(board, sq)
              /\ drag_piece' = piece_at(board, sq)
              /\ dragging' = TRUE
              /\ drag_pos' \in MousePositions
              /\ UNCHANGED <<board, nodes, node, running, pc, exit, ai_move, saves, disk, requests, by>>
         ELSE UNCHANGED vars
    ELSE IF ClickedMove(selected_square, sq) \in legal_moves
    THEN IF PushRaises(board, ClickedMove(selected_square, sq))
         THEN Crash("AssertionError") /\ UNCHANGED requests
         ELSE /\ make_move(ClickedMove(selected_square, sq), "pointer")
              /\ ClearSelection
              /\ UNCHANGED <<drag_pos, running, pc, exit, ai_move, requests>>
    ELSE /\ ClearSelection
         /\ UNCHANGED <<board, nodes, node, drag_pos, running, pc, exit, ai_move, saves, disk, requests, by>>

\* handle_click as a function of what it reads and writes, for sequences of
\* clicks: s holds the board, the game and the selection (drag_pos left out),
\* and raised once Board.push has raised
Session ==
    [board |-> board, nodes |-> nodes, node |-> node,
     selected_square |-> selected_square, legal_moves |-> legal_moves,
     dragging |-> dragging, drag_piece |-> drag_piece, raised |-> None]
clicked(s, pos) ==
    LET sq == pos_to_square(pos)
        move == ClickedMove(s.selected_square, sq)
        cleared == [s EXCEPT !.selected_square = NoSquare, !.legal_moves = {},
                             !.dragging = FALSE, !.drag_piece = None]
    IN IF s.raised # None \/ sq = NoSquare THEN s
       ELSE IF s.selected_square = NoSquare
       THEN IF CanSelect(s.board, sq)
            THEN [s EXCEPT !.selected_square = sq,
                           !.legal_moves = SelectionMoves(s.board, sq),
                           !.drag_piece = piece_at(s.board, sq),
                           !.dragging = TRUE]
            ELSE s
       ELSE IF move \in s.legal_moves
       THEN IF PushRaises(s.board, move)
            THEN [s EXCEPT !.raised = "AssertionError"]
            ELSE [cleared EXCEPT !.board = push(s.board, move),
                                 !.nodes = add_variation(s.nodes, s.node, move),
                                 !.node = Len(s.nodes) + 1]
       ELSE cleared
\* the MOUSEBUTTONDOWN and MOUSEBUTTONUP branches of the event loop, button 1
mouse_down(s, pos) == clicked(s, pos)
mouse_up(s, pos) == IF s.dragging THEN clicked(s, pos) ELSE s
\* draw_board: the squares that get the legal-move highlight
Highlighted(sq) == \E m \in legal_moves : m.to_square = sq

\* ---------------------------------------------------------------- _main_loop
Quit ==
    /\ pc = "events"
    /\ running' = FALSE
    /\ UNCHANGED <<board, nodes, node, selected_square, legal_moves, dragging,
                   drag_piece, drag_pos, pc, exit, ai_move, saves, disk, requests, by>>

MouseButtonDown ==
    /\ pc = "events"
    /\ \E button \in Buttons :
          IF button = LEFT_BUTTON
          THEN \E pos \in ClickPositions : handle_click(pos)
          ELSE UNCHANGED vars

MouseButtonUp ==
    /\ pc = "events"
    /\ \E button \in Buttons :
          IF button = LEFT_BUTTON /\ dragging
          THEN \E pos \in ClickPositions : handle_click(pos)
          ELSE UNCHANGED vars

MouseMotion ==
    /\ pc = "events"
    /\ \E pos \in MousePositions :
          IF dragging
          THEN /\ drag_pos' = pos
               /\ UNCHANGED <<board, nodes, node, selected_square, legal_moves, dragging,
                              drag_piece, running, pc, exit, ai_move, saves, disk, requests, by>>
          ELSE UNCHANGED vars

\* the for loop over pygame.event.get() has run out of events
EventsDone ==
    /\ pc = "events"
    /\ pc' = "agent"
    /\ UNCHANGED <<board, nodes, node, selected_square, legal_moves, dragging,
                   drag_piece, drag_pos, running, exit, ai_move, saves, disk, requests, by>>

\* the agent is asked whenever Black is to move, game over or not
AgentToMoveAlways(b) == b.turn = BLACK

\* may the loop ask the agent
AgentToMove(b) == b.turn = BLACK /\ ~is_game_over(b)
\* is the returned move text applied
Accepts(b, move_text) == move_text # <<>> /\ from_uci(move_text) \in LegalMoves(b)

\* the else branch with the break left out: the loop goes on
RejectAndContinue ==
    /\ pc' = "gameover"
    /\ UNCHANGED <<board, nodes, node, exit, saves, disk, by>>

\* the else branch of the agent step: log and break
Reject ==
    /\ pc' = "done"
    /\ exit' = "break"
    /\ UNCHANGED <<board, nodes, node, saves, disk, by>>

AgentTurn ==
    /\ pc = "agent"
    /\ UNCHANGED <<selected_square, legal_moves, dragging, drag_piece, drag_pos, running>>
    /\ IF AgentToMove(board)
       THEN \E reply \in Replies(legal_uci(fen(board))) :
              LET r == get_ai_move(fen(board), reply) IN
              /\ requests' = requests + (IF Posts(fen(board)) THEN 1 ELSE 0)
              /\ IF r.raised # None
                 THEN /\ pc' = "done"
                      /\ exit' = r.raised
                      /\ UNCHANGED <<board, nodes, node, ai_move, saves, disk, by>>
                 ELSE /\ ai_move' = r
                      /\ IF Accepts(board, r.move)
                         THEN /\ make_move(from_uci(r.move), "agent")
                              /\ pc' = "gameover"
                              /\ UNCHANGED exit
                         ELSE Reject
       ELSE /\ pc' = "gameover"
            /\ UNCHANGED <<board, nodes, node, exit, ai_move, saves, disk, requests, by>>

\* the game-over branch with the save_game call left out
OnGameOverWithoutSave ==
    /\ saves' = saves
    /\ disk' = disk
    /\ running' = FALSE
    /\ exit' = "game_over"
    /\ pc' = "done"

\* the body of "if self.board.is_game_over()": final save, leave the loop
OnGameOver ==
    /\ saves' = save_game(nodes, "game_over")
    /\ disk' \in write_file(disk)
    /\ running' = FALSE
    /\ exit' = "game_over"
    /\ pc' = "done"

GameOverCheck ==
    /\ pc = "gameover"
    /\ IF is_game_over(board)
       THEN OnGameOver
       ELSE /\ pc' = IF running THEN "events" ELSE "done"
            /\ exit' = IF running THEN exit ELSE "quit"
            /\ UNCHANGED <<saves, disk, running>>
    /\ UNCHANGED <<board, nodes, node, selected_square, legal_moves, dragging,
                   drag_piece, drag_pos, ai_move, requests, by>>

Next ==
    \/ Quit
    \/ MouseButtonDown
    \/ MouseButtonUp
    \/ MouseMotion
    \/ EventsDone
    \/ AgentTurn
    \/ GameOverCheck

\* run: _main_loop inside try/finally; there is no return statement, so what
\* the caller gets is None however the loop was left, unless it raised
run(e) ==
    IF e \in {"game_over", "break", "quit"}
    THEN [returned |-> None, raised |-> None]
    ELSE [returned |-> None, raised |-> e]

Spec == Init /\ [][Next]_vars
SpecIO == InitIO /\ [][Next]_vars
SpecFiles == InitFiles /\ [][Next]_vars

\* ------------------------------------------------------------------ claims
Last(seq) == seq[Len(seq)]
Applied == Len(board'.move_stack) = Len(board.move_stack) + 1
FinalSaves == {i \in 1 .. Len(saves) : saves[i].site = "game_over"}
Selected == selected_square # NoSquare
Ended == is_game_over(board) \/ exit = "break"

\* C1: every move pushed on the board, by a pointer event or by the agent
\* step, is a legal move of the position it is pushed on.
C1_LegalityClosure ==
    [][board' # board => Applied /\ Last(board'.move_stack) \in LegalMoves(board)]_vars

\* C2: the moves applied alternate pointer, agent, pointer, ...: a pointer
\* event never commits the move of the agent's turn.
C2_StrictAlternation ==
    \A i \in 1 .. Len(by) : by[i] = IF i % 2 = 1 THEN "pointer" ELSE "agent"

\* C3: once the position is game over or the session has aborted, the
\* position and the match record never change again.
C3_TerminatedAbsorbing ==
    [][Ended => board' = board /\ MatchRecord(nodes') = MatchRecord(nodes)]_vars

\* C4: a rejected suggestion (get_ai_move gives None) ends the session in the
\* same step with no move applied, the record and the saves unchanged, and
\* after the abort no further request is sent.
C4_RejectAborts ==
    [][/\ (pc = "agent" /\ requests' # requests /\ ai_move' = ReturnedNone /\ exit' \in {None, "break"})
          => /\ pc' = "done" /\ exit' = "break"
             /\ board' = board /\ MatchRecord(nodes') = MatchRecord(nodes)
             /\ saves' = saves /\ requests' = requests + 1
       /\ exit = "break" => requests' = requests /\ board' = board /\ pc' = "done"]_vars
C4_Witness ==
    /\ exit = "break" /\ pc = "done" /\ ai_move = ReturnedNone
    /\ requests = 2 /\ Len(board.move_stack) = 3

C5_AbortWitness == exit = "break" /\ Len(saves) = 1

\* C6: the match record starts empty, is the sequence of the moves pushed on
\* the board, grows by exactly the pushed move when a move is pushed and does
\* not change otherwise.
C6_RecordMonotone ==
    /\ MatchRecord(nodes) = <<>>
    /\ [][/\ MatchRecord(nodes') = board'.move_stack
          /\ board' # board
                => Applied /\ MatchRecord(nodes') = Append(MatchRecord(nodes), Last(board'.move_stack))
          /\ board' = board => MatchRecord(nodes') = MatchRecord(nodes)]_vars
C6_Witness ==
    /\ Len(MatchRecord(nodes)) = 3 /\ MatchRecord(nodes) = board.move_stack
    /\ by = <<"pointer", "agent", "pointer">>

\* C7: with a square selected, a click on a board square that no legal move
\* of the position reaches from the selected square changes neither the
\* position nor the record, and clears the selection (stated of the clicks
\* handle_click returns from).
NotLegalDestination(sq) ==
    ~\E m \in LegalMoves(board) : m.from_square = selected_square /\ m.to_square = sq
C7_IdempotentRejection ==
    [][\A pos \in ClickPositions :
          (/\ pc = "events" /\ Selected
           /\ pos_to_square(pos) # NoSquare
           /\ NotLegalDestination(pos_to_square(pos))
           /\ handle_click(pos) /\ pc' = pc)
          => /\ board' = board /\ MatchRecord(nodes') = MatchRecord(nodes)
             /\ selected_square' = NoSquare /\ legal_moves' = {} /\ ~dragging']_vars

\* C8: a selected square holds a piece of the side to move.
C8_SelectionInvariant ==
    Selected => OccupiedBy(board, selected_square, board.turn)

\* C9: with a square selected, the stored legal moves are the legal moves of
\* the current position from that square.
C9_FreshLegalMoves ==
    Selected => legal_moves = {m \in LegalMoves(board) : m.from_square = selected_square}

\* C10: get_ai_move returns for every answer of the suggestion service; it
\* never raises.
C10_NeverRaises ==
    (pc = "agent" /\ AgentToMove(board))
        => \A reply \in Replies(legal_uci(fen(board))) :
              get_ai_move(fen(board), reply).raised = None

\* C11: for a 200 answer with a JSON body whose text has a first word,
\* get_ai_move returns a move exactly when that word, lower-cased, is the UCI
\* text of a legal move of the position, and it returns that move's text;
\* for any other word it returns None.
FirstToken(text) == lower(FirstWord(lstrip(text)))
Successful(reply) ==
    /\ reply.kind = "response" /\ reply.status_code = HTTP_OK /\ reply.json
    /\ FirstToken(reply.text) # <<>>
C11_AcceptedIffLegalToken ==
    (pc = "agent" /\ AgentToMove(board))
        => \A reply \in {r \in Replies(legal_uci(fen(board))) : Successful(r)} :
              LET tok == FirstToken(reply.text)
                  members == {m \in LegalMoves(board) : uci(m) = tok}
                  got == get_ai_move(fen(board), reply)
              IN /\ got.raised = None
                 /\ members # {} => /\ got = Returned(tok)
                                    /\ Accepts(board, got.move)
                                    /\ members = {from_uci(got.move)}
                 /\ members = {} => got = ReturnedNone
C11_Witness ==
    /\ pc = "gameover" /\ by # <<>> /\ Last(by) = "agent"
    /\ ai_move.move # <<>> /\ Last(board.move_stack) = from_uci(ai_move.move)
    /\ Last(board.move_stack).promotion # NoPromotion

\* C12: a suggestion request is sent only with Black to move in a position
\* that is not game over: from a game-over position no step sends one.
C12_NoRequestWhenTerminal ==
    [][requests' # requests => board.turn = BLACK /\ ~is_game_over(board)]_vars
C12_Witness ==
    /\ exit = "game_over" /\ board.turn = BLACK /\ requests = 0
    /\ by = <<"pointer">> /\ LegalMoves(board) # {}

\* C13: the step that pushes a move makes exactly one save_game call, in the
\* same step, and the game it writes is the whole record with that move; the
\* k-th auto-save wrote the first k moves.
AutoSaves == SelectSeq(saves, LAMBDA e : e.site = "make_move")
C14_SaveErrorIsHarmless ==
    [][saves' # saves =>
          /\ Last(saves').game = MatchRecord(nodes')
          /\ MatchRecord(nodes') = board'.move_stack
          /\ Last(saves').site = "make_move" =>
                /\ Applied /\ board'.turn = ~board.turn
                /\ exit' = exit /\ pc' # "done"
          /\ Last(saves').site = "game_over" =>
                /\ board' = board /\ exit' = "game_over"]_vars
C14_Witness ==
    /\ disk.recovered /\ disk.ok
    /\ Len(saves) >= 2 /\ Last(saves).game = board.move_stack

\* C19: every save_game call writes a file whose name no earlier call of the
\* session used, two calls within one second of the clock included.
C19_FreshFileNames ==
    [][saves' # saves => disk'.name \notin (NoName + 1) .. disk.name]_vars

\* C20: after __init__ and before the first save_game call the folder that
\* save_game writes to holds no game file of an earlier session, whatever
\* the working directory.
C20_CleanFolderAtStart == saves = <<>> => disk.cwd \notin disk.old

\* every handle_click step does what clicked computes
ClickedIsHandleClick ==
    [][\A pos \in ClickPositions :
          (pc = "events" /\ handle_click(pos)) =>
              LET r == clicked(Session, pos) IN
              IF r.raised # None
              THEN exit' = r.raised /\ pc' = "done"
              ELSE /\ board' = r.board /\ nodes' = r.nodes /\ node' = r.node
                   /\ selected_square' = r.selected_square
                   /\ legal_moves' = r.legal_moves
                   /\ dragging' = r.dragging /\ drag_piece' = r.drag_piece
                   /\ exit' = exit]_vars

\* C15: what run hands its caller when the loop was left because the agent's
\* answer was rejected differs from what it hands it after a game result.
C15_AbortDistinguished == exit = "break" => run(exit) # run("game_over")

\* C16: with a piece selected, a click on a highlighted square (the
\* destination of a stored legal move, promotions included) applies a move
\* from the selected square to that square.
C16_CommitsOnLegalDestination ==
    [][\A pos \in ClickPositions :
          (/\ pc = "events" /\ Selected
           /\ Highlighted(pos_to_square(pos))
           /\ handle_click(pos))
          => /\ Applied
             /\ Last(board'.move_stack).from_square = selected_square
             /\ Last(board'.move_stack).to_square = pos_to_square(pos)]_vars

\* C17: with nothing selected and White to move, for every legal move, button
\* down on its source and up on its destination (drag) and down and up on the
\* source followed by down and up on the destination (two clicks) end in the
\* same state: that move applied and nothing selected.
C17_DragEqualsTwoClicks ==
    (pc = "events" /\ ~Selected /\ board.turn = WHITE)
        => \A src, dst \in ClickPositions :
              (\E m \in LegalMoves(board) : /\ m.from_square = pos_to_square(src)
                                            /\ m.to_square = pos_to_square(dst))
              => LET drag == mouse_up(mouse_down(Session, src), dst)
                     clicks == mouse_up(mouse_down(mouse_up(mouse_down(Session, src), src), dst), dst)
                 IN /\ drag = clicks
                    /\ clicks.selected_square = NoSquare /\ ~clicks.dragging
                    /\ Len(clicks.board.move_stack) = Len(board.move_stack) + 1
                    /\ Last(clicks.board.move_stack).from_square = pos_to_square(src)
                    /\ Last(clicks.board.move_stack).to_square = pos_to_square(dst)

\* C18: with nothing selected, a button-down outside the board, on an empty
\* square or on a piece of the side not to move changes neither the
\* selection, the stored legal moves, the position nor the record.
InvalidPick(pos) ==
    LET sq == pos_to_square(pos) IN
    \/ sq = NoSquare
    \/ ~Occupied(board, sq)
    \/ Color(piece_at(board, sq)) # board.turn
C18_InvalidClickIsNoOp ==
    (pc = "events" /\ ~Selected)
        => \A pos \in ClickPositions : InvalidPick(pos) => mouse_down(Session, pos) = Session
C18_Witness ==
    /\ pc = "events" /\ ~Selected /\ by = <<"pointer", "agent">>
    /\ \E pos \in ClickPositions :
          /\ pos_to_square(pos) # NoSquare /\ Occupied(board, pos_to_square(pos))
          /\ InvalidPick(pos)
    /\ \E pos \in ClickPositions : pos_to_square(pos) = NoSquare
====
